---- MODULE Spec2Model ----
(***************************************************************************)
(* Ajedrez de las Sombras: the move generators of pieza_sombras.py, the    *)
(* combat resolver recibir_damage, and the battle loop juego_sombras of    *)
(* main.py.  The board (TableroSombras), the AI (IASombras) and the table  *)
(* STATS live in modules that are not part of the sources at hand; they    *)
(* are modelled from the written specification and marked as such.         *)
(***************************************************************************)
EXTENDS Integers, Sequences, FiniteSets, TLC

VARIABLES
    piezas,              \* every PiezaSombra object created so far; the index is its identity
    grupo,               \* tablero.piezas: identities in the live collection
    grid,                \* the board's coordinate -> piece mapping (occupied squares only)
    turno,               \* "JUGADOR" | "ENEMIGO"
    pieza_seleccionada,  \* identity of the selected piece, or None
    corriendo,           \* the loop flag of juego_sombras
    pc,                  \* position inside one iteration of the battle loop
    resultado,           \* "NINGUNO" | "VICTORIA" | "DERROTA"
    jugadas,             \* Player moves applied so far (bounded)
    invocadas,           \* summons performed so far (bounded)
    ultimo,              \* record of what the last step did (history)
    historial            \* the sides whose turn has been applied, in order (history)

vars == <<piezas, grupo, grid, turno, pieza_seleccionada, corriendo, pc,
          resultado, jugadas, invocadas, ultimo, historial>>

----------------------------------------------------------------------------
(* Constants *)

GRID_WIDTH == 8
GRID_HEIGHT == 8

TEAM_PLAYER == "JUGADOR"
TEAM_ENEMY == "ENEMIGO"
Equipos == {TEAM_PLAYER, TEAM_ENEMY}

Tipos == {"PEON", "CABALLO", "ALFIL", "TORRE", "REINA", "REY", "BOSS"}

None == 0

\* Bounds of the model
MaxOtras == 1        \* other pieces placed around the piece under test
MaxJugadas == 1      \* Player moves per run
MaxInvocadas == 1    \* summons per run
MaxDamage == 13      \* largest damage amount tried on recibir_damage

Coordenadas == (0 .. GRID_WIDTH - 1) \X (0 .. GRID_HEIGHT - 1)

\* STATS[tipo]: hp and dmg of each kind.  The table itself is not among the
\* sources at hand; the values keep what is documented (the Boss has three
\* times the hp of the Rey and more damage) and let a capture either kill
\* or leave a survivor.
STATS(tipo_key) ==
    CASE tipo_key = "PEON"    -> [hp |-> 4,  dmg |-> 4]
      [] tipo_key = "CABALLO" -> [hp |-> 8,  dmg |-> 10]
      [] tipo_key = "ALFIL"   -> [hp |-> 8,  dmg |-> 6]
      [] tipo_key = "TORRE"   -> [hp |-> 12, dmg |-> 30]
      [] tipo_key = "REINA"   -> [hp |-> 15, dmg |-> 30]
      [] tipo_key = "REY"     -> [hp |-> 10, dmg |-> 5]
      [] tipo_key = "BOSS"    -> [hp |-> 30, dmg |-> 12]

----------------------------------------------------------------------------
(* PiezaSombra *)

\* PiezaSombra.__init__ (and the subclasses' __init__): hp starts at hp_max;
\* es_boss only for the Rey built with es_boss=True; primer_movimiento only
\* means something for a PEON.
PiezaSombra(grid_x, grid_y, team, tipo_key) ==
    [ grid_x |-> grid_x, grid_y |-> grid_y, team |-> team, tipo |-> tipo_key,
      es_boss |-> (tipo_key = "BOSS"),
      hp_max |-> STATS(tipo_key).hp, hp |-> STATS(tipo_key).hp,
      damage |-> STATS(tipo_key).dmg,
      primer_movimiento |-> (tipo_key = "PEON") ]

\* Mutant: the far edge is one square too far (`<=` for `<`)
esta_en_tablero_hasta(x, y) ==
    /\ 0 <= x /\ x <= GRID_WIDTH
    /\ 0 <= y /\ y <= GRID_HEIGHT

\* esta_en_tablero
esta_en_tablero(x, y) ==
    /\ 0 <= x /\ x < GRID_WIDTH
    /\ 0 <= y /\ y < GRID_HEIGHT

\* TableroSombras.obtener_pieza_en: the piece the board holds at (x, y), or None
obtener_pieza_en(g, x, y) ==
    IF <<x, y>> \in DOMAIN g THEN g[<<x, y>>] ELSE None

\* Mutant: the square of a blocking piece is taken whatever its team
RECURSIVE pasos_direccion_aliado(_, _, _, _, _, _, _)
pasos_direccion_aliado(ps, g, id, dx, dy, i, max_pasos) ==
    IF i > max_pasos THEN <<>>
    ELSE LET nx == ps[id].grid_x + (dx * i)
             ny == ps[id].grid_y + (dy * i)
         IN  IF ~esta_en_tablero(nx, ny) THEN <<>>
             ELSE IF obtener_pieza_en(g, nx, ny) = None
                  THEN <<  <<nx, ny>>  >>
                       \o pasos_direccion_aliado(ps, g, id, dx, dy, i + 1, max_pasos)
                  ELSE <<  <<nx, ny>>  >>

\* Mutant: the ray goes on behind a captured piece (the `break` is lost)
RECURSIVE pasos_direccion_salta(_, _, _, _, _, _, _)
pasos_direccion_salta(ps, g, id, dx, dy, i, max_pasos) ==
    IF i > max_pasos THEN <<>>
    ELSE LET nx == ps[id].grid_x + (dx * i)
             ny == ps[id].grid_y + (dy * i)
         IN  IF ~esta_en_tablero(nx, ny) THEN <<>>
             ELSE LET objetivo == obtener_pieza_en(g, nx, ny)
                  IN  IF objetivo = None \/ ps[objetivo].team # ps[id].team
                      THEN <<  <<nx, ny>>  >>
                           \o pasos_direccion_salta(ps, g, id, dx, dy, i + 1, max_pasos)
                      ELSE <<>>

\* Mutant: the ray is stopped by the step limit only, never by the board's edge
RECURSIVE pasos_direccion_sin_borde(_, _, _, _, _, _, _)
pasos_direccion_sin_borde(ps, g, id, dx, dy, i, max_pasos) ==
    IF i > max_pasos THEN <<>>
    ELSE LET nx == ps[id].grid_x + (dx * i)
             ny == ps[id].grid_y + (dy * i)
             objetivo == obtener_pieza_en(g, nx, ny)
         IN  IF objetivo = None
             THEN <<  <<nx, ny>>  >>
                  \o pasos_direccion_sin_borde(ps, g, id, dx, dy, i + 1, max_pasos)
             ELSE IF ps[objetivo].team # ps[id].team
                  THEN <<  <<nx, ny>>  >>
                  ELSE <<>>

\* The loop body of obtener_movimientos_direccion for step i and the steps after it
RECURSIVE pasos_direccion(_, _, _, _, _, _, _)
pasos_direccion(ps, g, id, dx, dy, i, max_pasos) ==
    IF i > max_pasos THEN <<>>
    ELSE LET nx == ps[id].grid_x + (dx * i)
             ny == ps[id].grid_y + (dy * i)
         IN  IF ~esta_en_tablero(nx, ny) THEN <<>>
             ELSE LET objetivo == obtener_pieza_en(g, nx, ny)
                  IN  IF objetivo = None
                      THEN <<  <<nx, ny>>  >> \o pasos_direccion(ps, g, id, dx, dy, i + 1, max_pasos)
                      ELSE IF ps[objetivo].team # ps[id].team
                           THEN <<  <<nx, ny>>  >>
                           ELSE <<>>

\* obtener_movimientos_direccion(tablero, dx, dy, max_pasos)
obtener_movimientos_direccion(ps, g, id, dx, dy, max_pasos) ==
    pasos_direccion(ps, g, id, dx, dy, 1, max_pasos)

\* The step limit of the ray-cast as the rules state it
PASOS_ESPECIFICADOS == 7

\* The default value of max_pasos
MAX_PASOS == 8

\* movimientos.extend(...) over a list of directions
RECURSIVE extender_direcciones(_, _, _, _)
extender_direcciones(ps, g, id, dirs) ==
    IF dirs = <<>> THEN <<>>
    ELSE obtener_movimientos_direccion(ps, g, id, Head(dirs)[1], Head(dirs)[2], MAX_PASOS)
         \o extender_direcciones(ps, g, id, Tail(dirs))

DIAGONALES == << <<1, 1>>, <<1, -1>>, <<-1, 1>>, <<-1, -1>> >>
CARDINALES == << <<1, 0>>, <<-1, 0>>, <<0, 1>>, <<0, -1>> >>
OCHO_DIRECCIONES == CARDINALES \o DIAGONALES
OFFSETS_CABALLO == << <<1, 2>>, <<1, -2>>, <<-1, 2>>, <<-1, -2>>,
                      <<2, 1>>, <<2, -1>>, <<-2, 1>>, <<-2, -1>> >>

\* PiezaSombraAlpil.obtener_movimientos_validos
movimientos_alfil(ps, g, id) == extender_direcciones(ps, g, id, DIAGONALES)

\* PiezaSombraTorre.obtener_movimientos_validos
movimientos_torre(ps, g, id) == extender_direcciones(ps, g, id, CARDINALES)

\* PiezaSombraReina.obtener_movimientos_validos
movimientos_reina(ps, g, id) == extender_direcciones(ps, g, id, OCHO_DIRECCIONES)

\* The loop shared by Caballo and Rey: each offset whose target is on the
\* board and empty or held by the other team
RECURSIVE movimientos_offsets(_, _, _, _)
movimientos_offsets(ps, g, id, offsets) ==
    IF offsets = <<>> THEN <<>>
    ELSE LET nx == ps[id].grid_x + Head(offsets)[1]
             ny == ps[id].grid_y + Head(offsets)[2]
             objetivo == obtener_pieza_en(g, nx, ny)
             este == IF esta_en_tablero(nx, ny)
                        /\ (objetivo = None \/ ps[objetivo].team # ps[id].team)
                     THEN <<  <<nx, ny>>  >> ELSE <<>>
         IN  este \o movimientos_offsets(ps, g, id, Tail(offsets))

\* Mutant: a piece standing next to the knight, on the way to a target, blocks it
movimientos_caballo_pata(ps, g, id) ==
    LET pata(o) == IF o[1] = 2 \/ o[1] = -2
                   THEN <<ps[id].grid_x + (o[1] \div 2), ps[id].grid_y>>
                   ELSE <<ps[id].grid_x, ps[id].grid_y + (o[2] \div 2)>>
        sin_pata(o) == obtener_pieza_en(g, pata(o)[1], pata(o)[2]) = None
    IN  movimientos_offsets(ps, g, id, SelectSeq(OFFSETS_CABALLO, sin_pata))

\* PiezaSombraCaballo.obtener_movimientos_validos
movimientos_caballo(ps, g, id) == movimientos_offsets(ps, g, id, OFFSETS_CABALLO)

\* Mutant: a square a pawn of the other team attacks is left out (check filtering)
movimientos_rey_sin_jaque(ps, g, id) ==
    LET atacada(c) ==
           \E d \in DOMAIN g :
              /\ ps[g[d]].team # ps[id].team
              /\ ps[g[d]].tipo = "PEON"
              /\ c[2] = d[2] + (IF ps[g[d]].team = TEAM_PLAYER THEN -1 ELSE 1)
              /\ c[1] = d[1] - 1 \/ c[1] = d[1] + 1
        segura(c) == ~atacada(c)
    IN  SelectSeq(movimientos_offsets(ps, g, id, OCHO_DIRECCIONES), segura)

\* PiezaSombraRey.obtener_movimientos_validos (Rey and Boss)
movimientos_rey(ps, g, id) == movimientos_offsets(ps, g, id, OCHO_DIRECCIONES)

\* direccion of a pawn: -1 for the Player, +1 for the Enemy
direccion_peon(team) == IF team = TEAM_PLAYER THEN -1 ELSE 1

\* Mutant: the double step is tested on its own, not under the single step
frontal_peon_salta(ps, g, id) ==
    LET direccion == direccion_peon(ps[id].team)
        nx == ps[id].grid_x
        ny == ps[id].grid_y + direccion
        nx2 == ps[id].grid_x
        ny2 == ps[id].grid_y + (direccion * 2)
    IN  (IF esta_en_tablero(nx, ny) /\ obtener_pieza_en(g, nx, ny) = None
         THEN <<  <<nx, ny>>  >> ELSE <<>>)
        \o (IF ps[id].primer_movimiento
               /\ esta_en_tablero(nx2, ny2) /\ obtener_pieza_en(g, nx2, ny2) = None
            THEN <<  <<nx2, ny2>>  >> ELSE <<>>)

\* The frontal part of PiezaSombraPeon.obtener_movimientos_validos
frontal_peon(ps, g, id) ==
    LET direccion == direccion_peon(ps[id].team)
        nx == ps[id].grid_x
        ny == ps[id].grid_y + direccion
        nx2 == ps[id].grid_x
        ny2 == ps[id].grid_y + (direccion * 2)
    IN  IF esta_en_tablero(nx, ny) /\ obtener_pieza_en(g, nx, ny) = None
        THEN <<  <<nx, ny>>  >> \o
             (IF ps[id].primer_movimiento
                 /\ esta_en_tablero(nx2, ny2) /\ obtener_pieza_en(g, nx2, ny2) = None
              THEN <<  <<nx2, ny2>>  >> ELSE <<>>)
        ELSE <<>>

\* Mutant: the diagonal is tested like the target of a knight or a king
\* (`objetivo is None or objetivo.team != self.team`)
RECURSIVE diagonales_peon_vacia(_, _, _, _)
diagonales_peon_vacia(ps, g, id, dxs) ==
    IF dxs = <<>> THEN <<>>
    ELSE LET nx == ps[id].grid_x + Head(dxs)
             ny == ps[id].grid_y + direccion_peon(ps[id].team)
             objetivo == obtener_pieza_en(g, nx, ny)
             este == IF esta_en_tablero(nx, ny)
                        /\ (objetivo = None \/ ps[objetivo].team # ps[id].team)
                     THEN <<  <<nx, ny>>  >> ELSE <<>>
         IN  este \o diagonales_peon_vacia(ps, g, id, Tail(dxs))

\* The diagonal-capture loop of PiezaSombraPeon.obtener_movimientos_validos
RECURSIVE diagonales_peon(_, _, _, _)
diagonales_peon(ps, g, id, dxs) ==
    IF dxs = <<>> THEN <<>>
    ELSE LET nx == ps[id].grid_x + Head(dxs)
             ny == ps[id].grid_y + direccion_peon(ps[id].team)
             objetivo == obtener_pieza_en(g, nx, ny)
             este == IF esta_en_tablero(nx, ny)
                        /\ objetivo # None /\ ps[objetivo].team # ps[id].team
                     THEN <<  <<nx, ny>>  >> ELSE <<>>
         IN  este \o diagonales_peon(ps, g, id, Tail(dxs))

\* PiezaSombraPeon.obtener_movimientos_validos
movimientos_peon(ps, g, id) ==
    frontal_peon(ps, g, id) \o diagonales_peon(ps, g, id, <<-1, 1>>)

\* obtener_movimientos_validos, dispatched on the class of the piece
obtener_movimientos_validos(ps, g, id) ==
    CASE ps[id].tipo = "PEON"    -> movimientos_peon(ps, g, id)
      [] ps[id].tipo = "CABALLO" -> movimientos_caballo(ps, g, id)
      [] ps[id].tipo = "ALFIL"   -> movimientos_alfil(ps, g, id)
      [] ps[id].tipo = "TORRE"   -> movimientos_torre(ps, g, id)
      [] ps[id].tipo = "REINA"   -> movimientos_reina(ps, g, id)
      [] ps[id].tipo \in {"REY", "BOSS"} -> movimientos_rey(ps, g, id)

\* The elements of a list
Elementos(s) == { s[i] : i \in DOMAIN s }

\* Mutant: the pawn keeps the base hook
post_move_base(p) == p

\* Mutant: a pawn that arrives on its far edge row is promoted to a queen
post_move_promueve(p) ==
    IF p.tipo # "PEON" THEN p
    ELSE IF p.grid_y = (IF p.team = TEAM_PLAYER THEN 0 ELSE GRID_HEIGHT - 1)
         THEN [p EXCEPT !.tipo = "REINA", !.hp_max = STATS("REINA").hp,
                        !.damage = STATS("REINA").dmg,
                        !.primer_movimiento = FALSE]
         ELSE [p EXCEPT !.primer_movimiento = FALSE]

\* post_move: PiezaSombraPeon clears primer_movimiento; the base hook is `pass`
post_move(p) ==
    IF p.tipo = "PEON" THEN [p EXCEPT !.primer_movimiento = FALSE] ELSE p

----------------------------------------------------------------------------
(* The move generator applied to drawn boards *)

SinMovimiento == [op |-> "ninguna", pieza |-> None, x |-> -1, y |-> -1,
                  movs |-> <<>>, objetivo |-> None, hp_antes |-> 0,
                  cantidad |-> 0, murio |-> FALSE, inicio |-> <<>>,
                  aplicadas |-> 0]

\* A board holding one piece of any kind, team and position
InitMov ==
    /\ \E t \in Tipos, e \in Equipos, c \in Coordenadas :
          /\ piezas = << PiezaSombra(c[1], c[2], e, t) >>
          /\ grid = (c :> 1)
    /\ grupo = {1}
    /\ turno = TEAM_PLAYER
    /\ pieza_seleccionada = None
    /\ corriendo = TRUE
    /\ pc = "generador"
    /\ resultado = "NINGUNO"
    /\ jugadas = 0
    /\ invocadas = 0
    /\ ultimo = SinMovimiento
    /\ historial = <<>>

Abs(n) == IF n < 0 THEN -n ELSE n
Sgn(n) == IF n < 0 THEN -1 ELSE IF n > 0 THEN 1 ELSE 0
Mayor(a, b) == IF a < b THEN b ELSE a

\* Square c lies behind the piece placed last, as seen from the piece under
\* test: further along the same one of the eight directions
Detras(ps, c) ==
    LET ax == ps[Len(ps)].grid_x - ps[1].grid_x
        ay == ps[Len(ps)].grid_y - ps[1].grid_y
        bx == c[1] - ps[1].grid_x
        by == c[2] - ps[1].grid_y
        j  == Mayor(Abs(ax), Abs(ay))
        k  == Mayor(Abs(bx), Abs(by))
    IN  /\ ax = 0 \/ ay = 0 \/ Abs(ax) = Abs(ay)
        /\ j < k
        /\ bx = Sgn(ax) * k
        /\ by = Sgn(ay) * k

\* Another piece is put on an empty square: the first one anywhere, each
\* further one behind the one before
Colocar(e, c) ==
    /\ pc = "generador"
    /\ ultimo.op = "ninguna"
    /\ Len(piezas) - 1 < MaxOtras
    /\ obtener_pieza_en(grid, c[1], c[2]) = None
    /\ Len(piezas) = 1 \/ Detras(piezas, c)
    /\ piezas' = Append(piezas, PiezaSombra(c[1], c[2], e, "PEON"))
    /\ grupo' = grupo \cup {Len(piezas) + 1}
    /\ grid' = grid @@ (c :> (Len(piezas) + 1))
    /\ UNCHANGED <<turno, pieza_seleccionada, corriendo, pc, resultado,
                   jugadas, invocadas, ultimo, historial>>

\* pieza.obtener_movimientos_validos(tablero) for the piece under test
Generar ==
    /\ pc = "generador"
    /\ ultimo.op = "ninguna"
    /\ ultimo' = [SinMovimiento EXCEPT !.op = "generar", !.pieza = 1,
                     !.movs = obtener_movimientos_validos(piezas, grid, 1)]
    /\ UNCHANGED <<piezas, grupo, grid, turno, pieza_seleccionada, corriendo,
                   pc, resultado, jugadas, invocadas, historial>>

\* The piece under test has made a move before: its post-move hook has run
YaMovio ==
    /\ pc = "generador"
    /\ ultimo.op = "ninguna"
    /\ Len(piezas) = 1
    /\ post_move(piezas[1]) # piezas[1]
    /\ piezas' = [piezas EXCEPT ![1] = post_move(piezas[1])]
    /\ UNCHANGED <<grupo, grid, turno, pieza_seleccionada, corriendo, pc,
                   resultado, jugadas, invocadas, ultimo, historial>>

NextMov ==
    \/ \E e \in Equipos, c \in Coordenadas : Colocar(e, c)
    \/ YaMovio
    \/ Generar

SpecMov == InitMov /\ [][NextMov]_vars

----------------------------------------------------------------------------
(* Combat resolver and board *)

\* Mutant: the amount is taken off twice
recibir_damage_doble(ps, gr, id, cantidad) ==
    LET hp_nuevo == (ps[id].hp - cantidad) - cantidad
    IN  [ piezas |-> [ps EXCEPT ![id].hp = hp_nuevo],
          grupo  |-> IF hp_nuevo <= 0 THEN gr \ {id} ELSE gr,
          murio  |-> (hp_nuevo <= 0) ]

\* Mutant: the piece dies only below zero (`<` for `<=`)
recibir_damage_estricto(ps, gr, id, cantidad) ==
    LET hp_nuevo == ps[id].hp - cantidad
    IN  [ piezas |-> [ps EXCEPT ![id].hp = hp_nuevo],
          grupo  |-> IF hp_nuevo < 0 THEN gr \ {id} ELSE gr,
          murio  |-> (hp_nuevo < 0) ]

\* Mutant: the dead piece is reported but never killed
recibir_damage_sin_kill(ps, gr, id, cantidad) ==
    LET hp_nuevo == ps[id].hp - cantidad
    IN  [ piezas |-> [ps EXCEPT ![id].hp = hp_nuevo],
          grupo  |-> gr,
          murio  |-> (hp_nuevo <= 0) ]

\* Mutant: the amount is added to the hit points (`+=` for `-=`)
recibir_damage_suma(ps, gr, id, cantidad) ==
    LET hp_nuevo == ps[id].hp + cantidad
    IN  [ piezas |-> [ps EXCEPT ![id].hp = hp_nuevo],
          grupo  |-> IF hp_nuevo <= 0 THEN gr \ {id} ELSE gr,
          murio  |-> (hp_nuevo <= 0) ]

\* PiezaSombra.recibir_damage: hp -= cantidad; at hp <= 0 the sprite is killed
\* (leaves the live collection) and the call returns True
recibir_damage(ps, gr, id, cantidad) ==
    LET hp_nuevo == ps[id].hp - cantidad
    IN  [ piezas |-> [ps EXCEPT ![id].hp = hp_nuevo],
          grupo  |-> IF hp_nuevo <= 0 THEN gr \ {id} ELSE gr,
          murio  |-> (hp_nuevo <= 0) ]

\* The board without the entry of coordinate c
quitar_de_grid(g, c) == [d \in (DOMAIN g) \ {c} |-> g[d]]

\* The board with coordinate c holding id
poner_en_grid(g, c, id) == [d \in (DOMAIN g) \cup {c} |-> IF d = c THEN id ELSE g[d]]

\* TableroSombras.mover_pieza: clears the vacated coordinate, resolves combat
\* when the destination held a piece of the other team before the move,
\* relocates the piece and calls its post-move hook
mover_pieza(ps, gr, g, id, x, y) ==
    LET objetivo == obtener_pieza_en(g, x, y)
        combate  == objetivo # None /\ ps[objetivo].team # ps[id].team
        golpe    == IF combate THEN recibir_damage(ps, gr, objetivo, ps[id].damage)
                    ELSE [piezas |-> ps, grupo |-> gr, murio |-> FALSE]
        g1       == quitar_de_grid(g, <<ps[id].grid_x, ps[id].grid_y>>)
        movida   == post_move([golpe.piezas[id] EXCEPT !.grid_x = x, !.grid_y = y])
    IN  [ piezas   |-> [golpe.piezas EXCEPT ![id] = movida],
          grupo    |-> golpe.grupo,
          grid     |-> poner_en_grid(g1, <<x, y>>, id),
          objetivo |-> IF combate THEN objetivo ELSE None,
          murio    |-> golpe.murio ]

\* TableroSombras.boss_muerto: the Boss is no longer in the live collection
boss_muerto(ps, gr) == ~ \E i \in gr : ps[i].es_boss

\* TableroSombras.jugador_muerto: the Player's King is no longer in the live collection
jugador_muerto(ps, gr) ==
    ~ \E i \in gr : ps[i].team = TEAM_PLAYER /\ ps[i].tipo = "REY"

----------------------------------------------------------------------------
(* recibir_damage applied to drawn pieces and amounts *)

\* One piece of any kind and team, at full hp
InitDano ==
    /\ \E t \in Tipos, e \in Equipos :
          piezas = << PiezaSombra(0, 0, e, t) >>
    /\ grupo = {1}
    /\ grid = (<<0, 0>> :> 1)
    /\ turno = TEAM_PLAYER
    /\ pieza_seleccionada = None
    /\ corriendo = TRUE
    /\ pc = "combate"
    /\ resultado = "NINGUNO"
    /\ jugadas = 0
    /\ invocadas = 0
    /\ ultimo = SinMovimiento
    /\ historial = <<>>

\* pieza.recibir_damage(cantidad) on the live piece
Golpear(cantidad) ==
    /\ pc = "combate"
    /\ 1 \in grupo
    /\ LET r == recibir_damage(piezas, grupo, 1, cantidad)
       IN  /\ piezas' = r.piezas
           /\ grupo' = r.grupo
           /\ ultimo' = [SinMovimiento EXCEPT !.op = "golpe", !.objetivo = 1,
                            !.hp_antes = piezas[1].hp, !.cantidad = cantidad,
                            !.murio = r.murio]
    /\ UNCHANGED <<grid, turno, pieza_seleccionada, corriendo, pc, resultado,
                   jugadas, invocadas, historial>>

NextDano == \E cantidad \in 1 .. MaxDamage : Golpear(cantidad)

SpecDano == InitDano /\ [][NextDano]_vars

----------------------------------------------------------------------------
(* The AI collaborator *)

\* Squares where invocar_sombra may put a new Enemy piece
CasillasInvocacion == { <<1, 1>> }

\* IASombras.calcular_movimiento: the (piece, destination) pairs it chooses from,
\* the legal moves of every live Enemy piece; it returns None when there is none
candidatos_ia(ps, gr, g) ==
    UNION { { <<i, c>> : c \in Elementos(obtener_movimientos_validos(ps, g, i)) }
            : i \in { j \in gr : ps[j].team = TEAM_ENEMY } }

----------------------------------------------------------------------------
(* juego_sombras: the battle loop *)

\* The formations a match is started from
Formaciones ==
    { << PiezaSombra(0, 7, TEAM_PLAYER, "TORRE"),
         PiezaSombra(1, 7, TEAM_PLAYER, "REY"),
         PiezaSombra(2, 7, TEAM_PLAYER, "PEON"),
         PiezaSombra(0, 0, TEAM_ENEMY, "BOSS"),
         PiezaSombra(3, 6, TEAM_ENEMY, "CABALLO") >>,
      << PiezaSombra(0, 7, TEAM_PLAYER, "TORRE"),
         PiezaSombra(1, 7, TEAM_PLAYER, "REY"),
         PiezaSombra(1, 2, TEAM_PLAYER, "PEON"),
         PiezaSombra(0, 0, TEAM_ENEMY, "BOSS") >>,
      << PiezaSombra(7, 7, TEAM_PLAYER, "REY"),
         PiezaSombra(1, 2, TEAM_PLAYER, "PEON"),
         PiezaSombra(0, 7, TEAM_ENEMY, "BOSS"),
         PiezaSombra(0, 6, TEAM_ENEMY, "PEON"),
         PiezaSombra(1, 6, TEAM_ENEMY, "PEON"),
         PiezaSombra(1, 7, TEAM_ENEMY, "PEON") >> }

\* The coordinate -> piece mapping of a formation
grid_inicial(f) ==
    [c \in { <<f[i].grid_x, f[i].grid_y>> : i \in DOMAIN f }
       |-> CHOOSE i \in DOMAIN f : <<f[i].grid_x, f[i].grid_y>> = c]

\* tablero = TableroSombras(); turno = "JUGADOR"; pieza_seleccionada = None
Init ==
    /\ \E f \in Formaciones :
          /\ piezas = f
          /\ grupo = DOMAIN f
          /\ grid = grid_inicial(f)
    /\ turno = "JUGADOR"
    /\ pieza_seleccionada = None
    /\ corriendo = TRUE
    /\ pc = "eventos"
    /\ resultado = "NINGUNO"
    /\ jugadas = 0
    /\ invocadas = 0
    /\ ultimo = SinMovimiento
    /\ historial = <<>>

\* The record of a step that applies no move
Paso(op) == [SinMovimiento EXCEPT !.op = op, !.aplicadas = ultimo.aplicadas]

\* Mutant: a click is handled whoever's turn it is
turno_acepta_click_siempre(t) == TRUE

\* `and turno == "JUGADOR"` of the MOUSEBUTTONDOWN branch (line 472)
turno_acepta_click(t) == t = "JUGADOR"

\* Mutant: the deselect branch is never taken
es_la_seleccionada_nunca(pieza_en_casilla, sel) == FALSE

\* pieza_en_casilla == pieza_seleccionada (line 492)
es_la_seleccionada(pieza_en_casilla, sel) == pieza_en_casilla = sel

\* Mutant: the selection is kept after the move
seleccion_tras_mover_igual(sel) == sel

\* pieza_seleccionada = None after an applied move (line 501)
seleccion_tras_mover(sel) == None

\* The click lands on the board (line 482)
click_en_tablero(gx, gy) ==
    /\ 0 <= gx /\ gx < GRID_WIDTH
    /\ 0 <= gy /\ gy < GRID_HEIGHT

\* Mutant: any piece can be selected, whatever its team
es_pieza_jugador_cualquiera(ps, pieza_en_casilla) ==
    pieza_en_casilla # None

\* The click names a piece of the Player (lines 487 and 505)
es_pieza_jugador(ps, pieza_en_casilla) ==
    pieza_en_casilla # None /\ ps[pieza_en_casilla].team = "JUGADOR"

\* Mutant: any empty square is taken as a destination
movimiento_valido_vacia(ps, g, sel, gx, gy) ==
    \/ obtener_pieza_en(g, gx, gy) = None
    \/ <<gx, gy>> \in Elementos(obtener_movimientos_validos(ps, g, sel))

\* Mutant: the destination is not checked against the legal moves
movimiento_valido_mut(ps, g, sel, gx, gy) == TRUE

\* (grid_x, grid_y) in movimientos_validos (lines 497-498)
movimiento_valido(ps, g, sel, gx, gy) ==
    <<gx, gy>> \in Elementos(obtener_movimientos_validos(ps, g, sel))

\* Mutant: the Player move forgets to hand the turn over
turno_tras_jugador_mut == "JUGADOR"

\* turno = "ENEMIGO" after an applied Player move (line 502)
turno_tras_jugador == "ENEMIGO"

\* Mutant: the turn is handed back only under `if movimiento:`
turno_tras_ia_mut == "ENEMIGO"

\* turno = "JUGADOR" at the end of the Enemy turn (line 523)
turno_tras_ia == "JUGADOR"

\* Mutant: the loop goes on after the match was decided
siguiente_pc_mut(sigue) == "eventos"

\* `while corriendo`: where the loop goes after the frame (line 464)
siguiente_pc(sigue) == IF sigue THEN "eventos" ELSE "fin"

\* pygame.QUIT
Quit ==
    /\ pc = "eventos"
    /\ corriendo
    /\ corriendo' = FALSE
    /\ ultimo' = Paso("quit")
    /\ UNCHANGED <<piezas, grupo, grid, turno, pieza_seleccionada, pc, resultado,
                   jugadas, invocadas, historial>>

\* pygame.MOUSEBUTTONDOWN at grid square (gx, gy).  The bound caps the Player
\* moves of a match that is still undecided.
Click(gx, gy) ==
    /\ pc = "eventos"
    /\ jugadas < MaxJugadas \/ turno # "JUGADOR" \/ resultado # "NINGUNO"
    /\ IF ~turno_acepta_click(turno) \/ ~click_en_tablero(gx, gy)
       THEN /\ ultimo' = Paso("ignorado")
            /\ UNCHANGED <<piezas, grupo, grid, turno, pieza_seleccionada, jugadas, historial>>
       ELSE LET pieza_en_casilla == obtener_pieza_en(grid, gx, gy)
            IN  IF pieza_seleccionada = None
                THEN /\ pieza_seleccionada' =
                            IF es_pieza_jugador(piezas, pieza_en_casilla)
                            THEN pieza_en_casilla ELSE None
                     /\ ultimo' = IF es_pieza_jugador(piezas, pieza_en_casilla)
                                  THEN Paso("seleccionar") ELSE Paso("ignorado")
                     /\ UNCHANGED <<piezas, grupo, grid, turno, jugadas, historial>>
                ELSE IF es_la_seleccionada(pieza_en_casilla, pieza_seleccionada)
                THEN /\ pieza_seleccionada' = None
                     /\ ultimo' = Paso("deseleccionar")
                     /\ UNCHANGED <<piezas, grupo, grid, turno, jugadas, historial>>
                ELSE IF movimiento_valido(piezas, grid, pieza_seleccionada, gx, gy)
                THEN LET r == mover_pieza(piezas, grupo, grid, pieza_seleccionada, gx, gy)
                     IN  /\ piezas' = r.piezas
                         /\ grupo' = r.grupo
                         /\ grid' = r.grid
                         /\ pieza_seleccionada' = seleccion_tras_mover(pieza_seleccionada)
                         /\ turno' = turno_tras_jugador
                         /\ jugadas' = jugadas + 1
                         /\ historial' = Append(historial, "JUGADOR")
                         /\ ultimo' = [SinMovimiento EXCEPT
                                         !.op = "mover_jugador",
                                         !.aplicadas = ultimo.aplicadas + 1,
                                         !.pieza = pieza_seleccionada,
                                         !.x = gx, !.y = gy,
                                         !.objetivo = r.objetivo,
                                         !.hp_antes = IF r.objetivo = None THEN 0
                                                      ELSE piezas[r.objetivo].hp,
                                         !.cantidad = IF r.objetivo = None THEN 0
                                                      ELSE piezas[pieza_seleccionada].damage,
                                         !.murio = r.murio]
                ELSE /\ pieza_seleccionada' =
                            IF es_pieza_jugador(piezas, pieza_en_casilla)
                            THEN pieza_en_casilla ELSE None
                     /\ ultimo' = [Paso("rechazado") EXCEPT
                                         !.pieza = pieza_seleccionada,
                                         !.objetivo = pieza_en_casilla]
                     /\ UNCHANGED <<piezas, grupo, grid, turno, jugadas, historial>>
    /\ UNCHANGED <<corriendo, pc, resultado, invocadas>>

\* Mutant: the Enemy block is not under `if turno == "ENEMIGO"`
FinEventos_sin_turno ==
    /\ pc = "eventos"
    /\ pc' = "invocar"
    /\ UNCHANGED <<piezas, grupo, grid, turno, pieza_seleccionada, corriendo,
                   resultado, jugadas, invocadas, ultimo, historial>>

\* The event queue of this frame is exhausted
FinEventos ==
    /\ pc = "eventos"
    /\ pc' = IF turno = "ENEMIGO" THEN "invocar" ELSE "verificar"
    /\ UNCHANGED <<piezas, grupo, grid, turno, pieza_seleccionada, corriendo,
                   resultado, jugadas, invocadas, ultimo, historial>>

\* ia.invocar_sombra(): this time it summons an Enemy pawn on square c
Invocar(c) ==
    /\ pc = "invocar"
    /\ invocadas < MaxInvocadas
    /\ c \in CasillasInvocacion
    /\ obtener_pieza_en(grid, c[1], c[2]) = None
    /\ piezas' = Append(piezas, PiezaSombra(c[1], c[2], TEAM_ENEMY, "PEON"))
    /\ grupo' = grupo \cup {Len(piezas) + 1}
    /\ grid' = poner_en_grid(grid, c, Len(piezas) + 1)
    /\ invocadas' = invocadas + 1
    /\ pc' = "mover"
    /\ ultimo' = [Paso("invocar") EXCEPT !.pieza = Len(piezas) + 1,
                                         !.inicio = <<piezas, grupo>>]
    /\ UNCHANGED <<turno, pieza_seleccionada, corriendo, resultado, jugadas, historial>>

\* ia.invocar_sombra(): this time it summons nothing
NoInvocar ==
    /\ pc = "invocar"
    /\ pc' = "mover"
    /\ ultimo' = [Paso("sin_invocar") EXCEPT !.inicio = <<piezas, grupo>>]
    /\ UNCHANGED <<piezas, grupo, grid, turno, pieza_seleccionada, corriendo,
                   resultado, jugadas, invocadas, historial>>

\* pieza, x, y = movimiento; tablero.mover_pieza(pieza, x, y); turno = "JUGADOR"
AplicarMovimientoIA(m) ==
    /\ pc = "mover"
    /\    LET r == mover_pieza(piezas, grupo, grid, m[1], m[2][1], m[2][2])
          IN  /\ piezas' = r.piezas
              /\ grupo' = r.grupo
              /\ grid' = r.grid
              /\ ultimo' = [SinMovimiento EXCEPT
                              !.op = "mover_ia", !.pieza = m[1],
                              !.aplicadas = ultimo.aplicadas + 1,
                              !.x = m[2][1], !.y = m[2][2],
                              !.movs = obtener_movimientos_validos(piezas, grid, m[1]),
                              !.inicio = ultimo.inicio,
                              !.objetivo = r.objetivo,
                              !.hp_antes = IF r.objetivo = None THEN 0
                                           ELSE piezas[r.objetivo].hp,
                              !.cantidad = IF r.objetivo = None THEN 0
                                           ELSE piezas[m[1]].damage,
                              !.murio = r.murio]
    /\ turno' = turno_tras_ia
    /\ historial' = Append(historial, "ENEMIGO")
    /\ pc' = "verificar"
    /\ UNCHANGED <<pieza_seleccionada, corriendo, resultado, jugadas, invocadas>>

\* movimiento = ia.calcular_movimiento(); the move it returns is applied
MoverIA ==
    /\ pc = "mover"
    /\ \E m \in candidatos_ia(piezas, grupo, grid) : AplicarMovimientoIA(m)

\* movimiento = ia.calcular_movimiento() returned None
SinMovimientoIA ==
    /\ pc = "mover"
    /\ candidatos_ia(piezas, grupo, grid) = {}
    /\ turno' = turno_tras_ia
    /\ historial' = Append(historial, "ENEMIGO")
    /\ pc' = "verificar"
    /\ ultimo' = [Paso("sin_movimiento") EXCEPT !.inicio = ultimo.inicio]
    /\ UNCHANGED <<piezas, grupo, grid, pieza_seleccionada, corriendo, resultado,
                   jugadas, invocadas>>

\* Mutant: the two tests of the terminal check in the other order
veredicto_derrota_primero(ps, gr) ==
    IF jugador_muerto(ps, gr) THEN "DERROTA"
    ELSE IF boss_muerto(ps, gr) THEN "VICTORIA"
    ELSE "NINGUNO"

\* The outcome the terminal check declares (lines 526-531)
veredicto(ps, gr) ==
    IF boss_muerto(ps, gr) THEN "VICTORIA"
    ELSE IF jugador_muerto(ps, gr) THEN "DERROTA"
    ELSE "NINGUNO"

\* The terminal check that closes the frame, and the loop test
Verificar ==
    /\ pc = "verificar"
    /\ resultado' = veredicto(piezas, grupo)
    /\ corriendo' = (corriendo /\ veredicto(piezas, grupo) = "NINGUNO")
    /\ pc' = siguiente_pc(corriendo')
    /\ ultimo' = [Paso("verificar") EXCEPT !.aplicadas = 0]
    /\ UNCHANGED <<piezas, grupo, grid, turno, pieza_seleccionada, jugadas, invocadas,
                   historial>>

\* The squares the mouse is clicked on: every square of the board, and
\* points beyond each of its four edges
Clicks == Coordenadas \cup { <<-1, 3>>, <<GRID_WIDTH, 4>>, <<2, -1>>, <<5, GRID_HEIGHT>> }

Next ==
    \/ Quit
    \/ \E c \in Clicks : Click(c[1], c[2])
    \/ FinEventos
    \/ \E c \in CasillasInvocacion : Invocar(c)
    \/ NoInvocar
    \/ MoverIA
    \/ SinMovimientoIA
    \/ Verificar

Spec == Init /\ [][Next]_vars

----------------------------------------------------------------------------
(* The battle loop with a collaborator that is not trusted: what
   calcular_movimiento returns is any Enemy piece ever created, live or not,
   and a square that need not be among its moves *)

\* The squares tried as destinations: a corner, the Player King's square of
\* the formations, a square in the middle, the opposite corner
DestinosLibres == { <<0, 0>>, <<1, 7>>, <<3, 3>>, <<7, 7>> }

\* movimiento = ia.calcular_movimiento() returned a pair outside the legal moves
MoverIALibre ==
    /\ pc = "mover"
    /\ \E i \in DOMAIN piezas, c \in DestinosLibres :
          /\ piezas[i].team = TEAM_ENEMY
          /\ <<i, c>> \notin candidatos_ia(piezas, grupo, grid)
          /\ AplicarMovimientoIA(<<i, c>>)

NextIA ==
    \/ Next
    \/ MoverIALibre

SpecIA == Init /\ [][NextIA]_vars

----------------------------------------------------------------------------
(* Properties of the battle loop *)

\* The coordinates of a piece
Pos(ps, i) == <<ps[i].grid_x, ps[i].grid_y>>

\* C1: the match starts on the Player's turn, and the turns applied so far
\* alternate Player, Enemy, Player, ...: the active side is the Player exactly
\* when as many Enemy turns as Player moves have been applied, so no side is
\* skipped and none plays twice in a row.
C1_TurnosAlternan ==
    /\ \A i \in DOMAIN historial :
          historial[i] = IF i % 2 = 1 THEN "JUGADOR" ELSE "ENEMIGO"
    /\ turno = IF Len(historial) % 2 = 0 THEN "JUGADOR" ELSE "ENEMIGO"

\* A Player move and the Enemy turn after it have been applied, and the
\* Player is the active side again
C1_Testigo ==
    /\ historial = << "JUGADOR", "ENEMIGO" >>
    /\ turno = "JUGADOR"

\* C2 (as claimed): once a Player move has removed the Boss, Victory is
\* declared before any Enemy summon or Enemy move is applied; that is, no
\* state has the Boss gone and a summon or an Enemy move as its last step.
C2_VictoriaAntesDelTurnoEnemigo ==
    boss_muerto(piezas, grupo) => ultimo.op \notin {"invocar", "mover_ia"}

\* C3: once Victory or Defeat has been declared, no step applies a Player
\* move, an Enemy move or a summon, and the pieces, their hp, the live
\* collection, the board and the outcome stay as they are.
C3_FinAbsorbente ==
    [][ resultado # "NINGUNO" =>
          /\ piezas' = piezas
          /\ grupo' = grupo
          /\ grid' = grid
          /\ resultado' = resultado
          /\ jugadas' = jugadas
          /\ invocadas' = invocadas
          /\ historial' = historial ]_vars

\* The match has been decided and the loop has ended
C3_Testigo == resultado # "NINGUNO" /\ pc = "fin"

\* C4: a step that applies a Player move is taken on the Player's turn, moves
\* the selected piece, which is a live Player piece, to a square of that
\* piece's legal moves on the board as it was at the click, and moves no other
\* piece; no step of the event stage moves an Enemy piece.
C4_JugadaDelJugadorLegal ==
    [][ /\ jugadas' # jugadas =>
             /\ turno = "JUGADOR"
             /\ pieza_seleccionada # None
             /\ pieza_seleccionada \in grupo
             /\ piezas[pieza_seleccionada].team = TEAM_PLAYER
             /\ ultimo'.pieza = pieza_seleccionada
             /\ Pos(piezas', pieza_seleccionada) = <<ultimo'.x, ultimo'.y>>
             /\ Pos(piezas', pieza_seleccionada) \in
                   Elementos(obtener_movimientos_validos(piezas, grid, pieza_seleccionada))
             /\ \A i \in DOMAIN piezas :
                   i # pieza_seleccionada => Pos(piezas', i) = Pos(piezas, i)
        /\ pc = "eventos" =>
             \A i \in DOMAIN piezas :
                piezas[i].team = TEAM_ENEMY => Pos(piezas', i) = Pos(piezas, i) ]_vars

\* A Player move has just been applied
C4_Testigo == ultimo.op = "mover_jugador" /\ jugadas = 1

\* C5 (as claimed): no two live pieces have the same coordinates.
C5_UnaPiezaPorCasilla ==
    \A i, j \in grupo : i # j => Pos(piezas, i) # Pos(piezas, j)

\* C6: every piece of the live collection has 0 < hp <= hp_max, and a piece
\* whose hp is 0 or less is neither in the live collection nor returned by
\* the query of any coordinate.
C6_VidaDeLasPiezas ==
    /\ \A i \in grupo : 0 < piezas[i].hp /\ piezas[i].hp <= piezas[i].hp_max
    /\ \A i \in DOMAIN piezas :
          piezas[i].hp <= 0 =>
             /\ i \notin grupo
             /\ \A c \in Coordenadas : obtener_pieza_en(grid, c[1], c[2]) # i

\* One piece has been killed and another one lives on with less than its hp_max
C6_Testigo ==
    /\ \E i \in DOMAIN piezas : piezas[i].hp <= 0
    /\ \E j \in grupo : piezas[j].hp < piezas[j].hp_max

\* C7: after recibir_damage(d) on a live piece with hp h: if d >= h the piece
\* has left the live collection and the call returned True; if d < h the piece
\* is still in it with hp exactly h - d and the call returned False.
C7_RecibirDamage ==
    ultimo.op = "golpe" =>
       LET h == ultimo.hp_antes
           d == ultimo.cantidad
       IN  /\ d >= h => (ultimo.objetivo \notin grupo /\ ultimo.murio)
           /\ d < h  => /\ ultimo.objetivo \in grupo
                        /\ piezas[ultimo.objetivo].hp = h - d
                        /\ ~ultimo.murio

\* The boundary: a blow of exactly the hp the piece had left
C7_Testigo ==
    /\ ultimo.op = "golpe"
    /\ ultimo.cantidad = ultimo.hp_antes
    /\ ultimo.murio
    /\ 1 \notin grupo

----------------------------------------------------------------------------
(* Properties of the move generators *)

\* The team holding square c, or "" for an empty square
EquipoEn(ps, g, c) ==
    IF obtener_pieza_en(g, c[1], c[2]) = None THEN ""
    ELSE ps[obtener_pieza_en(g, c[1], c[2])].team

\* C8: every coordinate the generator returns, for a piece of any kind, team
\* and position, is on the board and is not held by a piece of the mover's team.
C8_DestinosEnTableroYNoPropios ==
    ultimo.op = "generar" =>
       \A c \in Elementos(ultimo.movs) :
          /\ c \in Coordenadas
          /\ EquipoEn(piezas, grid, c) # piezas[ultimo.pieza].team

\* A piece of the mover's team stands next to it, on a square of its geometry
C8_Testigo ==
    /\ ultimo.op = "generar"
    /\ Len(piezas) = 2
    /\ piezas[2].team = piezas[1].team
    /\ piezas[1].tipo = "REINA"
    /\ Pos(piezas, 1) = <<3, 3>>
    /\ Pos(piezas, 2) = <<3, 4>>
    /\ <<3, 4>> \notin Elementos(ultimo.movs)
    /\ <<3, 2>> \in Elementos(ultimo.movs)

\* The directions of a sliding piece
DireccionesDe(tipo) ==
    CASE tipo = "ALFIL" -> { <<1, 1>>, <<1, -1>>, <<-1, 1>>, <<-1, -1>> }
      [] tipo = "TORRE" -> { <<1, 0>>, <<-1, 0>>, <<0, 1>>, <<0, -1>> }
      [] tipo = "REINA" -> { <<1, 0>>, <<-1, 0>>, <<0, 1>>, <<0, -1>>,
                             <<1, 1>>, <<1, -1>>, <<-1, 1>>, <<-1, -1>> }

\* The square at distance n from piece id in direction d
Casilla(ps, id, d, n) == <<ps[id].grid_x + (d[1] * n), ps[id].grid_y + (d[2] * n)>>

\* The distance of the first square in direction d that is occupied or off the board
PrimerObstaculo(ps, g, id, d) ==
    CHOOSE k \in 1 .. GRID_WIDTH :
       /\ Casilla(ps, id, d, k) \notin Coordenadas
          \/ EquipoEn(ps, g, Casilla(ps, id, d, k)) # ""
       /\ \A m \in 1 .. (k - 1) :
             /\ Casilla(ps, id, d, m) \in Coordenadas
             /\ EquipoEn(ps, g, Casilla(ps, id, d, m)) = ""

\* The ray-cast set: in each direction the squares before the first obstacle,
\* and the obstacle's square when it is on the board and held by the other team
RayCast(ps, g, id) ==
    UNION { LET k == PrimerObstaculo(ps, g, id, d)
            IN  { Casilla(ps, id, d, n) : n \in 1 .. (k - 1) }
                \cup (IF /\ Casilla(ps, id, d, k) \in Coordenadas
                         /\ EquipoEn(ps, g, Casilla(ps, id, d, k)) # ps[id].team
                      THEN { Casilla(ps, id, d, k) } ELSE {})
            : d \in DireccionesDe(ps[id].tipo) }

\* C9: for a Bishop, a Rook or a Queen the generator returns exactly the
\* ray-cast set of the piece's directions, each square once.
C9_DeslizantesRayCast ==
    (ultimo.op = "generar" /\ piezas[ultimo.pieza].tipo \in {"ALFIL", "TORRE", "REINA"}) =>
       /\ Elementos(ultimo.movs) = RayCast(piezas, grid, ultimo.pieza)
       /\ Len(ultimo.movs) = Cardinality(Elementos(ultimo.movs))

\* A Rook at (0,0) with an Enemy piece at (0,3): its moves along the file are
\* (0,1), (0,2), (0,3)
C9_Testigo ==
    /\ ultimo.op = "generar"
    /\ piezas[1].tipo = "TORRE"
    /\ Pos(piezas, 1) = <<0, 0>>
    /\ Len(piezas) = 2
    /\ Pos(piezas, 2) = <<0, 3>>
    /\ piezas[2].team # piezas[1].team
    /\ { c \in Elementos(ultimo.movs) : c[1] = 0 } = { <<0, 1>>, <<0, 2>>, <<0, 3>> }

\* The forward squares the generator offers to pawn i
Avances(ps, g, i) ==
    { c \in Elementos(obtener_movimientos_validos(ps, g, i)) : c[1] = ps[i].grid_x }

\* The square n steps ahead of pawn i
Adelante(ps, i, n) ==
    <<ps[i].grid_x, ps[i].grid_y + (direccion_peon(ps[i].team) * n)>>

\* C10: a live pawn that has not moved and has both squares ahead on the board
\* and empty is offered exactly those two forward squares; a move of the pawn
\* clears primer_movimiento, it is never set again, and a pawn without it is
\* offered at most one forward square and never the square two steps ahead.
C10_PrimerMovimientoDelPeon ==
    /\ [](\A i \in grupo :
            piezas[i].tipo = "PEON" =>
               /\ ( /\ piezas[i].primer_movimiento
                    /\ Adelante(piezas, i, 1) \in Coordenadas
                    /\ Adelante(piezas, i, 2) \in Coordenadas
                    /\ EquipoEn(piezas, grid, Adelante(piezas, i, 1)) = ""
                    /\ EquipoEn(piezas, grid, Adelante(piezas, i, 2)) = "" )
                  => Avances(piezas, grid, i) = { Adelante(piezas, i, 1), Adelante(piezas, i, 2) }
               /\ ~piezas[i].primer_movimiento
                  => /\ Cardinality(Avances(piezas, grid, i)) <= 1
                     /\ Adelante(piezas, i, 2) \notin
                           Elementos(obtener_movimientos_validos(piezas, grid, i)))
    /\ [][ \A i \in DOMAIN piezas :
              piezas[i].tipo = "PEON" =>
                 /\ Pos(piezas', i) # Pos(piezas, i) => ~piezas'[i].primer_movimiento
                 /\ ~piezas[i].primer_movimiento => ~piezas'[i].primer_movimiento ]_vars

\* A live pawn has moved and is offered one forward square
C10_Testigo ==
    \E i \in grupo :
       /\ piezas[i].tipo = "PEON"
       /\ ~piezas[i].primer_movimiento
       /\ Avances(piezas, grid, i) = { Adelante(piezas, i, 1) }

\* The square of pawn i shifted dx files sideways and one row ahead
Diagonal(ps, i, dx) ==
    <<ps[i].grid_x + dx, ps[i].grid_y + direccion_peon(ps[i].team)>>

\* C11: every move of a pawn goes to a smaller row for the Player and to a
\* larger row for the Enemy; the square one ahead is returned exactly when it is
\* on the board and empty; the square two ahead is returned exactly when the
\* pawn has not moved yet and both squares ahead are on the board and empty.
C11_PeonAvanza ==
    (ultimo.op = "generar" /\ piezas[ultimo.pieza].tipo = "PEON") =>
       LET i  == ultimo.pieza
           m  == Elementos(ultimo.movs)
           a1 == Adelante(piezas, i, 1)
           a2 == Adelante(piezas, i, 2)
           libre(c) == c \in Coordenadas /\ EquipoEn(piezas, grid, c) = ""
       IN  /\ \A c \in m :
                 IF piezas[i].team = TEAM_PLAYER
                 THEN c[2] < piezas[i].grid_y ELSE c[2] > piezas[i].grid_y
           /\ a1 \in m <=> libre(a1)
           /\ a2 \in m <=> (piezas[i].primer_movimiento /\ libre(a1) /\ libre(a2))

\* A pawn that has not moved stands right behind a piece of the other team,
\* with the square behind that piece empty: it is offered no forward square
C11_Testigo ==
    /\ ultimo.op = "generar"
    /\ piezas[1].tipo = "PEON"
    /\ piezas[1].primer_movimiento
    /\ Len(piezas) = 2
    /\ piezas[2].team # piezas[1].team
    /\ Pos(piezas, 2) = Adelante(piezas, 1, 1)
    /\ Adelante(piezas, 1, 2) \in Coordenadas
    /\ ultimo.movs = <<>>

\* C12: each of the two forward-diagonal squares is returned exactly when it
\* is on the board and held by a piece of the other team, and every returned
\* square that is occupied or off the pawn's file is one of those two.
C12_PeonCapturaEnDiagonal ==
    (ultimo.op = "generar" /\ piezas[ultimo.pieza].tipo = "PEON") =>
       LET i == ultimo.pieza
           m == Elementos(ultimo.movs)
           ds == { Diagonal(piezas, i, -1), Diagonal(piezas, i, 1) }
       IN  /\ \A d \in ds :
                 d \in m <=> /\ d \in Coordenadas
                             /\ EquipoEn(piezas, grid, d) \notin {"", piezas[i].team}
           /\ \A c \in m :
                 (c[1] # piezas[i].grid_x \/ EquipoEn(piezas, grid, c) # "") => c \in ds

\* A pawn with a piece of the other team on a forward diagonal is offered
\* that square, and not the empty diagonal on the other side
C12_Testigo ==
    /\ ultimo.op = "generar"
    /\ piezas[1].tipo = "PEON"
    /\ Len(piezas) = 2
    /\ piezas[2].team # piezas[1].team
    /\ Pos(piezas, 2) = Diagonal(piezas, 1, 1)
    /\ Diagonal(piezas, 1, -1) \in Coordenadas
    /\ Diagonal(piezas, 1, 1) \in Elementos(ultimo.movs)
    /\ Diagonal(piezas, 1, -1) \notin Elementos(ultimo.movs)

\* The squares at the given offsets from piece i
Desplazadas(ps, i, offsets) ==
    { <<ps[i].grid_x + o[1], ps[i].grid_y + o[2]>> : o \in offsets }

\* The squares of a set that are on the board and not held by the team of piece i
Alcanzables(ps, g, i, cs) ==
    { c \in cs : c \in Coordenadas /\ EquipoEn(ps, g, c) # ps[i].team }

\* The eight offsets of a knight
SaltosDeCaballo == { o \in (-2 .. 2) \X (-2 .. 2) : Abs(o[1]) * Abs(o[2]) = 2 }

\* The board with every square outside cs emptied
SoloEn(g, cs) == [c \in (DOMAIN g) \cap cs |-> g[c]]

\* C13: a knight is returned at most 8 squares, exactly the targets of the 8
\* offsets that are on the board and empty or held by the other team, and the
\* same list as on the board with every square but its own and those targets
\* emptied.
C13_CaballoSoloMiraSusDestinos ==
    (ultimo.op = "generar" /\ piezas[ultimo.pieza].tipo = "CABALLO") =>
       LET i == ultimo.pieza
           destinos == Desplazadas(piezas, i, SaltosDeCaballo)
       IN  /\ Len(ultimo.movs) <= 8
           /\ Len(ultimo.movs) = Cardinality(Elementos(ultimo.movs))
           /\ Elementos(ultimo.movs) = Alcanzables(piezas, grid, i, destinos)
           /\ ultimo.movs = obtener_movimientos_validos(
                               piezas, SoloEn(grid, destinos \cup {Pos(piezas, i)}), i)

\* A knight in the middle of the board with a piece right next to it still
\* has its 8 moves
C13_Testigo ==
    /\ ultimo.op = "generar"
    /\ piezas[1].tipo = "CABALLO"
    /\ Pos(piezas, 1) = <<3, 3>>
    /\ Len(piezas) = 2
    /\ Pos(piezas, 2) = <<3, 4>>
    /\ Len(ultimo.movs) = 8

\* The eight unit offsets
PasosDeRey == ((-1 .. 1) \X (-1 .. 1)) \ { <<0, 0>> }

\* Piece j attacks square c: a pawn its two forward diagonals, any other
\* piece the squares it may move to
Ataca(ps, g, j, c) ==
    IF ps[j].tipo = "PEON"
    THEN c \in { Diagonal(ps, j, -1), Diagonal(ps, j, 1) }
    ELSE c \in Elementos(obtener_movimientos_validos(ps, g, j))

\* The other crown: BOSS for a REY and REY for a BOSS
OtraCorona(tipo) == IF tipo = "REY" THEN "BOSS" ELSE "REY"

\* C14: a King or a Boss is returned exactly the neighbours (8 unit offsets)
\* that are on the board and empty or held by the other team; a Boss and a
\* King of the same team on the same square of the same board are returned the
\* same list; an empty neighbour is returned also when a piece of the other
\* team attacks it.
C14_ReySinFiltroDeJaque ==
    (ultimo.op = "generar" /\ piezas[ultimo.pieza].tipo \in {"REY", "BOSS"}) =>
       LET i == ultimo.pieza
           vecinos == Desplazadas(piezas, i, PasosDeRey)
           otro == PiezaSombra(piezas[i].grid_x, piezas[i].grid_y, piezas[i].team,
                               OtraCorona(piezas[i].tipo))
       IN  /\ Elementos(ultimo.movs) = Alcanzables(piezas, grid, i, vecinos)
           /\ Len(ultimo.movs) = Cardinality(Elementos(ultimo.movs))
           /\ ultimo.movs = obtener_movimientos_validos([piezas EXCEPT ![i] = otro], grid, i)
           /\ \A c \in vecinos \cap Coordenadas :
                 ( /\ EquipoEn(piezas, grid, c) = ""
                   /\ \E j \in grupo : piezas[j].team # piezas[i].team /\ Ataca(piezas, grid, j, c) )
                 => c \in Elementos(ultimo.movs)

\* A King is offered a neighbouring square that a pawn of the other team attacks
C14_Testigo ==
    /\ ultimo.op = "generar"
    /\ piezas[1].tipo = "REY"
    /\ Len(piezas) = 2
    /\ piezas[2].team # piezas[1].team
    /\ \E c \in Elementos(ultimo.movs) :
          EquipoEn(piezas, grid, c) = "" /\ Ataca(piezas, grid, 2, c)

----------------------------------------------------------------------------
(* Properties of the Enemy turn *)

\* C15 (as claimed): a move of the AI collaborator is applied only for a
\* piece of the live collection and a destination among the moves the
\* generator returns for that piece on the board before the move.
C15_JugadaDeLaIAValidada ==
    ultimo.op = "mover_ia" =>
       /\ ultimo.pieza \in grupo
       /\ <<ultimo.x, ultimo.y>> \in Elementos(ultimo.movs)

----------------------------------------------------------------------------
(* Properties of the Player's requests *)

\* A click at c that asks for nothing the rules allow, on the Player's turn:
\* off the board; on a square without a Player piece while nothing is
\* selected; on a square that is neither the selected piece's own nor among
\* its legal moves
Malformado(c) ==
    /\ turno = "JUGADOR"
    /\ \/ c \notin Coordenadas
       \/ /\ c \in Coordenadas
          /\ pieza_seleccionada = None
          /\ EquipoEn(piezas, grid, c) # TEAM_PLAYER
       \/ /\ c \in Coordenadas
          /\ pieza_seleccionada # None
          /\ obtener_pieza_en(grid, c[1], c[2]) # pieza_seleccionada
          /\ c \notin Elementos(obtener_movimientos_validos(piezas, grid, pieza_seleccionada))

\* C16: a malformed click leaves the pieces (positions, hp, pawn flags), the
\* live collection, the board mapping, the active side and the turns applied
\* as they were: a step that changes any of them is the step of no malformed
\* click.
C16_ClickMalformadoSinEfecto ==
    [][ \/ /\ piezas' = piezas
           /\ grupo' = grupo
           /\ grid' = grid
           /\ turno' = turno
           /\ jugadas' = jugadas
           /\ historial' = historial
        \/ \A c \in Clicks : ~(Malformado(c) /\ Click(c[1], c[2])) ]_vars

\* With a piece selected, a click outside its legal moves was turned down
\* and no move has been applied
C16_Testigo ==
    /\ ultimo.op = "rechazado"
    /\ jugadas = 0
    /\ turno = "JUGADOR"
    /\ pieza_seleccionada = None

----------------------------------------------------------------------------
(* Properties of an Enemy turn without a move *)

\* C17 (as claimed): when the AI returned no move, the pieces (positions, hp)
\* and the live collection at the end of the Enemy turn are those of its
\* start, and neither terminal condition has become true in that turn.  It is
\* stated for the Enemy turns that begin with the Boss and the Player's King
\* both alive, the turns a match has whatever the place of the terminal check.
C17_SinMovimientoTableroIgual ==
    ( /\ ultimo.op = "sin_movimiento"
      /\ ~boss_muerto(ultimo.inicio[1], ultimo.inicio[2])
      /\ ~jugador_muerto(ultimo.inicio[1], ultimo.inicio[2]) ) =>
       /\ <<piezas, grupo>> = ultimo.inicio
       /\ boss_muerto(piezas, grupo) = boss_muerto(ultimo.inicio[1], ultimo.inicio[2])
       /\ jugador_muerto(piezas, grupo) = jugador_muerto(ultimo.inicio[1], ultimo.inicio[2])

\* C17 (amended): when the AI returned no move, the turn is back with the
\* Player; every piece that existed at the start of the Enemy turn has the
\* position, hp and flags it had and is live exactly if it was; a piece that
\* did not exist then is a live Enemy piece at full hp, added by that turn's
\* summon; neither terminal condition has become true in that turn.
C17_SinMovimientoCedeElTurno ==
    ultimo.op = "sin_movimiento" =>
       LET ps0 == ultimo.inicio[1]
           gr0 == ultimo.inicio[2]
       IN  /\ turno = "JUGADOR"
           /\ \A i \in DOMAIN ps0 : piezas[i] = ps0[i] /\ (i \in grupo <=> i \in gr0)
           /\ \A i \in (DOMAIN piezas) \ (DOMAIN ps0) :
                 /\ i \in grupo
                 /\ piezas[i].team = TEAM_ENEMY
                 /\ piezas[i].hp = piezas[i].hp_max
           /\ boss_muerto(piezas, grupo) = boss_muerto(ps0, gr0)
           /\ jugador_muerto(piezas, grupo) = jugador_muerto(ps0, gr0)

\* With the Boss and the Player's King alive and no Enemy piece able to move,
\* the summon added a pawn that cannot move either, the AI returned no move and
\* the turn went back to the Player
C17_Testigo ==
    /\ ultimo.op = "sin_movimiento"
    /\ Len(piezas) = Len(ultimo.inicio[1]) + 1
    /\ turno = "JUGADOR"
    /\ ~boss_muerto(ultimo.inicio[1], ultimo.inicio[2])
    /\ ~jugador_muerto(ultimo.inicio[1], ultimo.inicio[2])
    /\ ~boss_muerto(piezas, grupo)
    /\ candidatos_ia(piezas, grupo, grid) = {}

----------------------------------------------------------------------------
(* Properties of the terminal check *)

\* C18: a terminal check that finds both the Boss and the Player's King gone
\* declares Victory, and Defeat is only ever declared with the Player's King
\* gone and the Boss still in the live collection.
C18_EmpateEsVictoria ==
    /\ ( /\ ultimo.op = "verificar"
         /\ boss_muerto(piezas, grupo)
         /\ jugador_muerto(piezas, grupo) ) => resultado = "VICTORIA"
    /\ resultado = "DERROTA" =>
          (jugador_muerto(piezas, grupo) /\ ~boss_muerto(piezas, grupo))

\* The Boss and the Player's King have both been killed before the check
\* ran, and it declared Victory
C18_Testigo ==
    /\ ultimo.op = "verificar"
    /\ boss_muerto(piezas, grupo)
    /\ jugador_muerto(piezas, grupo)
    /\ resultado = "VICTORIA"
    /\ ~corriendo

----------------------------------------------------------------------------
(* Properties of the order of the Enemy turn *)

\* C19: the summon step and the request to the AI are only taken on the
\* Enemy's turn; a summon happens only in the summon step, which is taken once
\* and either adds a piece or adds none, and leads to the request to the AI;
\* the AI is asked only right after the summon step, once, and the Enemy's
\* turn is over with its answer; no piece is added to the match otherwise.
C19_InvocarUnaVezAntesDeLaIA ==
    /\ [](pc \in {"invocar", "mover"} => turno = "ENEMIGO")
    /\ [][ /\ invocadas' # invocadas =>
                /\ pc = "invocar"
                /\ turno = "ENEMIGO"
                /\ invocadas' = invocadas + 1
           /\ Len(piezas') # Len(piezas) => invocadas' # invocadas
           /\ pc = "invocar" => pc' = "mover"
           /\ pc' = "mover" => pc = "invocar"
           /\ pc = "mover" =>
                /\ pc' = "verificar"
                /\ ultimo'.op \in {"mover_ia", "sin_movimiento"}
                /\ historial' = Append(historial, "ENEMIGO") ]_vars

\* In one Enemy turn a piece was summoned and then a move of the AI was applied
C19_Testigo ==
    /\ ultimo.op = "mover_ia"
    /\ Len(piezas) = Len(ultimo.inicio[1]) + 1
    /\ invocadas = 1

----------------------------------------------------------------------------
(* Properties of the damage of a move *)

\* The hp of every piece but those of a set is left as it was
HpIgualSalvo(ids) ==
    \A i \in (DOMAIN piezas) \ ids : piezas'[i].hp = piezas[i].hp

\* C20: a step that applies no move changes no hp; a move onto a square the
\* board holds no piece on changes no hp; a move onto a square holding a piece
\* of the other team takes the mover's damage off the hp of that piece, once,
\* and changes no other hp, the mover's included.
C20_DamageUnaVezPorCaptura ==
    [][ IF jugadas' # jugadas \/ (pc = "mover" /\ ultimo'.op = "mover_ia")
        THEN LET m == ultimo'.pieza
                 t == obtener_pieza_en(grid, ultimo'.x, ultimo'.y)
             IN  IF t = None
                 THEN HpIgualSalvo({})
                 ELSE /\ piezas[t].team # piezas[m].team
                      /\ t # m
                      /\ piezas'[t].hp = piezas[t].hp - piezas[m].damage
                      /\ HpIgualSalvo({t})
        ELSE HpIgualSalvo({}) ]_vars

\* A capture the attacked piece survived: it has lost the attacker's damage
\* and the attacker is at full hp
C20_Testigo ==
    /\ ultimo.op \in {"mover_jugador", "mover_ia"}
    /\ ultimo.objetivo # None
    /\ ~ultimo.murio
    /\ ultimo.cantidad = piezas[ultimo.pieza].damage
    /\ piezas[ultimo.objetivo].hp = ultimo.hp_antes - ultimo.cantidad
    /\ piezas[ultimo.pieza].hp = piezas[ultimo.pieza].hp_max

----------------------------------------------------------------------------
\* C21: every piece starts at hp = hp_max, at the match's start and when it is
\* summoned, and no step (Player move, Enemy move, summon, rejected or ignored
\* click) ever raises the hp of a piece.
C21_VidaNuncaSube ==
    /\ \A i \in DOMAIN piezas : piezas[i].hp = piezas[i].hp_max
    /\ [][ /\ \A i \in DOMAIN piezas :
                 /\ i \in DOMAIN piezas'
                 /\ piezas'[i].hp <= piezas[i].hp
                 /\ piezas'[i].hp_max = piezas[i].hp_max
           /\ \A i \in (DOMAIN piezas') \ (DOMAIN piezas) :
                 piezas'[i].hp = piezas'[i].hp_max ]_vars

\* A piece that was hit stays alive below its hp_max, next to a piece at hp_max
C21_Testigo ==
    /\ \E i \in grupo : piezas[i].hp > 0 /\ piezas[i].hp < piezas[i].hp_max
    /\ \E i \in grupo : piezas[i].hp = piezas[i].hp_max
    /\ ultimo.op \in {"mover_jugador", "mover_ia"}

\* C22: the coordinates of every live piece are on the board, 0 <= x < 8 and
\* 0 <= y < 8, after any sequence of Player and Enemy moves.
C22_PiezasVivasEnTablero ==
    \A i \in grupo :
        /\ 0 <= piezas[i].grid_x /\ piezas[i].grid_x < 8
        /\ 0 <= piezas[i].grid_y /\ piezas[i].grid_y < 8

\* A piece has just moved onto an edge square of the board
C22_Testigo ==
    /\ ultimo.op \in {"mover_jugador", "mover_ia"}
    /\ ultimo.pieza \in grupo
    /\ Pos(piezas, ultimo.pieza) = <<ultimo.x, ultimo.y>>
    /\ (ultimo.x \in {0, GRID_WIDTH - 1} \/ ultimo.y \in {0, GRID_HEIGHT - 1})

\* C24: within one iteration of the battle loop at most one move is applied, so
\* a Player move and the Enemy's reply are never both applied in the same
\* iteration (ultimo.aplicadas counts the moves applied since the iteration began).
C24_UnaJugadaPorIteracion ==
    ultimo.aplicadas <= 1

\* C25: a click handled while the active side is Enemy is ignored: from the
\* Player's move to the end of the frame's event loop no step changes the
\* board, the pieces, the selection or the active side, and a Player move is
\* applied only while the active side is Player and hands the turn over, so a
\* Player turn holds at most one Player move.
C25_ClickEnTurnoEnemigoIgnorado ==
    [][ /\ (pc = "eventos" /\ turno = "ENEMIGO")
             => /\ piezas' = piezas
                /\ grupo' = grupo
                /\ grid' = grid
                /\ pieza_seleccionada' = pieza_seleccionada
                /\ turno' = turno
                /\ jugadas' = jugadas
        /\ jugadas' # jugadas
             => /\ pc = "eventos"
                /\ turno = "JUGADOR"
                /\ turno' = "ENEMIGO"
                /\ jugadas' = jugadas + 1 ]_vars

\* A click on a Player piece was ignored in the frame of the Player's move
C25_Testigo ==
    /\ ultimo.op = "ignorado"
    /\ pc = "eventos"
    /\ turno = "ENEMIGO"
    /\ jugadas = 1
    /\ pieza_seleccionada = None
    /\ ultimo.aplicadas = 1

\* C26: with a piece selected, a click on that piece's own square clears the
\* selection and changes nothing else: no move is applied, no pawn flag is
\* cleared, and the active side stays Player.
C26_DeseleccionarSoloLimpia ==
    [][ LET sel == pieza_seleccionada
            c   == Pos(piezas, sel)
        IN  ( /\ pc = "eventos"
              /\ turno = "JUGADOR"
              /\ sel # None
              /\ obtener_pieza_en(grid, c[1], c[2]) = sel
              /\ Click(c[1], c[2]) )
            => /\ pieza_seleccionada' = None
               /\ piezas' = piezas
               /\ grupo' = grupo
               /\ grid' = grid
               /\ turno' = "JUGADOR"
               /\ jugadas' = jugadas
               /\ historial' = historial ]_vars

\* The selected pawn was deselected and still has its double step
C26_Testigo ==
    /\ ultimo.op = "deseleccionar"
    /\ pieza_seleccionada = None
    /\ turno = "JUGADOR"
    /\ \E i \in grupo : /\ piezas[i].team = TEAM_PLAYER
                        /\ piezas[i].tipo = "PEON"
                        /\ piezas[i].primer_movimiento

\* C27: with a piece selected, a click on a square outside its legal set (and
\* not its own square) makes another Player piece the selection if the square
\* holds one, and otherwise (empty or Enemy square) leaves the selection as it
\* was (ultimo.pieza is the selection before the click, ultimo.objetivo the
\* piece the board returned for the clicked square).
C27_RechazoConservaSeleccion ==
    ultimo.op = "rechazado"
        => IF ultimo.objetivo # None /\ piezas[ultimo.objetivo].team = TEAM_PLAYER
           THEN pieza_seleccionada = ultimo.objetivo
           ELSE pieza_seleccionada = ultimo.pieza

\* C28: on the 8x8 board the ray-cast with the code's default limit of 8 steps
\* returns the same squares, in the same order, as with the stated limit of 7
\* steps, for every sliding piece, position, direction and occupancy.
C28_OchoPasosComoSiete ==
    (ultimo.op = "generar" /\ piezas[1].tipo \in {"ALFIL", "TORRE", "REINA"}) =>
       /\ \A d \in DireccionesDe(piezas[1].tipo) :
             obtener_movimientos_direccion(piezas, grid, 1, d[1], d[2], MAX_PASOS)
               = obtener_movimientos_direccion(piezas, grid, 1, d[1], d[2],
                                               PASOS_ESPECIFICADOS)
       /\ Elementos(ultimo.movs) =
             UNION { Elementos(obtener_movimientos_direccion(
                                  piezas, grid, 1, d[1], d[2], PASOS_ESPECIFICADOS))
                     : d \in DireccionesDe(piezas[1].tipo) }

\* A Rook alone in the corner (0,0): 7 squares along the rank with either limit
C28_Testigo ==
    /\ ultimo.op = "generar"
    /\ piezas[1].tipo = "TORRE"
    /\ Pos(piezas, 1) = <<0, 0>>
    /\ Len(piezas) = 1
    /\ Len(obtener_movimientos_direccion(piezas, grid, 1, 1, 0, PASOS_ESPECIFICADOS)) = 7
    /\ <<7, 0>> \in Elementos(ultimo.movs)

\* C29: the post-move hook changes only a pawn's first-move eligibility: for a
\* piece that is not a pawn it changes nothing, and an applied move leaves the
\* moved piece's kind, team, hp_max and damage as they were (no promotion, also
\* for a pawn that arrives on its far edge row); no step changes those fields
\* of any piece.
C29_PostMoveSoloElPrimerMovimiento ==
    /\ [](\A i \in DOMAIN piezas :
            LET p == piezas[i]
            IN  /\ [post_move(p) EXCEPT !.primer_movimiento = p.primer_movimiento] = p
                /\ p.tipo # "PEON" => post_move(p) = p)
    /\ [][ /\ \A i \in DOMAIN piezas :
                 /\ piezas'[i].tipo = piezas[i].tipo
                 /\ piezas'[i].team = piezas[i].team
                 /\ piezas'[i].hp_max = piezas[i].hp_max
                 /\ piezas'[i].damage = piezas[i].damage
                 /\ piezas'[i].es_boss = piezas[i].es_boss
           /\ ultimo'.aplicadas = ultimo.aplicadas + 1 =>
                 LET m == ultimo'.pieza
                 IN  piezas'[m] =
                        [piezas[m] EXCEPT
                            !.grid_x = ultimo'.x,
                            !.grid_y = ultimo'.y,
                            !.primer_movimiento =
                                IF piezas[m].tipo = "PEON" THEN FALSE ELSE @] ]_vars

\* A Player pawn has just arrived on its far edge row and is still a pawn
C29_Testigo ==
    /\ ultimo.op = "mover_jugador"
    /\ piezas[ultimo.pieza].tipo = "PEON"
    /\ piezas[ultimo.pieza].grid_y = 0
    /\ piezas[ultimo.pieza].damage = STATS("PEON").dmg
    /\ ~piezas[ultimo.pieza].primer_movimiento

\* C30: no stale selection: the selected piece, if any, is a live Player piece
\* that the board returns at the piece's own coordinates; the selection is
\* empty at the match's start, after every applied Player move and throughout
\* every Enemy turn.
C30_SeleccionVigente ==
    /\ pieza_seleccionada # None =>
          /\ pieza_seleccionada \in grupo
          /\ piezas[pieza_seleccionada].team = TEAM_PLAYER
          /\ obtener_pieza_en(grid, piezas[pieza_seleccionada].grid_x,
                                    piezas[pieza_seleccionada].grid_y) = pieza_seleccionada
          /\ turno = "JUGADOR"
          /\ pc \in {"eventos", "verificar", "fin"}
    /\ (jugadas = 0 /\ ultimo.op = "ninguna") => pieza_seleccionada = None
    /\ ultimo.op = "mover_jugador" => pieza_seleccionada = None
    /\ (turno = "ENEMIGO" \/ pc \in {"invocar", "mover"}) => pieza_seleccionada = None

\* The Enemy has just captured the Player piece that was selected and moved
\* in this iteration, and nothing is selected
C30_Testigo ==
    /\ ultimo.op = "mover_ia"
    /\ ultimo.aplicadas = 2
    /\ ultimo.murio
    /\ piezas[ultimo.objetivo].team = TEAM_PLAYER
    /\ ultimo.objetivo \notin grupo
    /\ piezas[ultimo.objetivo].tipo = "PEON"
    /\ ~piezas[ultimo.objetivo].primer_movimiento
    /\ pieza_seleccionada = None

\* C31: no friendly fire: a move applied on the Player's turn moves a Player
\* piece and neither lowers the hp of a Player piece nor takes one out of the
\* live collection; a Player piece loses hp or is removed only by the step that
\* applies an Enemy move during the Enemy's turn, so the Player's King is
\* defeated only by an Enemy move.
C31_SinFuegoAmigo ==
    [][ /\ jugadas' # jugadas
             => /\ piezas[ultimo'.pieza].team = TEAM_PLAYER
                /\ \A i \in DOMAIN piezas :
                      piezas[i].team = TEAM_PLAYER
                         => /\ piezas'[i].hp = piezas[i].hp
                            /\ (i \in grupo => i \in grupo')
        /\ ( \/ \E i \in DOMAIN piezas :
                   /\ piezas[i].team = TEAM_PLAYER
                   /\ (piezas'[i].hp < piezas[i].hp \/ (i \in grupo /\ i \notin grupo'))
             \/ (jugador_muerto(piezas', grupo') /\ ~jugador_muerto(piezas, grupo)) )
             => /\ pc = "mover"
                /\ turno = "ENEMIGO"
                /\ ultimo'.op = "mover_ia"
                /\ piezas[ultimo'.pieza].team = TEAM_ENEMY
                /\ jugadas' = jugadas ]_vars

\* The Player's rook has just hit an Enemy piece next to Player pieces, and
\* every Player piece is alive at its full hp
C31_Testigo ==
    /\ ultimo.op = "mover_jugador"
    /\ ultimo.objetivo # None
    /\ piezas[ultimo.objetivo].team = TEAM_ENEMY
    /\ piezas[ultimo.objetivo].hp < ultimo.hp_antes
    /\ piezas[ultimo.pieza].tipo = "TORRE"
    /\ \A i \in DOMAIN piezas :
          piezas[i].team = TEAM_PLAYER => (i \in grupo /\ piezas[i].hp = piezas[i].hp_max)

====
